---- MODULE Spec2Model ----
(***************************************************************************)
(* Model of the parallel ginkgo runner (src/main.go): the dispatcher loop  *)
(* of main, the per-repository unit processRepo, the attempt loop it       *)
(* starts as a goroutine, and the two buffered writers they share.         *)
(*                                                                         *)
(* Text is modelled as a sequence of tokens: "NL" is a newline, "SP" a     *)
(* blank, "/" the path separator, every other token a run of ordinary      *)
(* characters.                                                             *)
(***************************************************************************)
EXTENDS Naturals, Integers, Sequences, FiniteSets, TLC

VARIABLES repositories, limit, env,
          mainpc, next, sem, wg,
          upc, entry, wk, ctxDone,
          gpc, i, failedTests, flakyTests, criticalError,
          uniqueFailures, uniqueFlaky,
          writers,
          log, started, outcome, steps

vars == <<repositories, limit, env, mainpc, next, sem, wg,
          upc, entry, wk, ctxDone,
          gpc, i, failedTests, flakyTests, criticalError,
          uniqueFailures, uniqueFlaky, writers,
          log, started, outcome, steps>>

(*************************** bounds ****************************************)
NumRepos == 2
MaxLimit == 2

(*************************** program constants *****************************)
skipRepoName == "cluster-kube-apiserver-operator"
attempts == 3
failLineRegex == "[FAIL]"
flakyRegex == "[FLAKY]"
TimeoutNote == "Test suite took too long (>3 minutes), skipping remaining attempts."

(*************************** text helpers **********************************)
Last(s) == s[Len(s)]
Front(s) == SubSeq(s, 1, Len(s) - 1)

\* strings.Split(s, sep): the pieces between the separators; always at
\* least one piece (the empty text splits into one empty piece).
RECURSIVE Split(_, _)
Split(s, sep) ==
  IF \A k \in 1..Len(s) : s[k] # sep THEN <<s>>
  ELSE LET p == CHOOSE k \in 1..Len(s) :
                  s[k] = sep /\ \A j \in 1..(k - 1) : s[j] # sep
       IN <<SubSeq(s, 1, p - 1)>> \o Split(SubSeq(s, p + 1, Len(s)), sep)

\* strings.TrimSpace
RECURSIVE TrimSpace(_)
TrimSpace(s) ==
  IF s = <<>> THEN s
  ELSE IF Head(s) = "SP" THEN TrimSpace(Tail(s))
  ELSE IF Last(s) = "SP" THEN TrimSpace(Front(s))
  ELSE s

\* strings.TrimSuffix
TrimSuffix(s, suffix) ==
  IF s # <<>> /\ Last(s) = suffix THEN Front(s) ELSE s

\* regexp.MatchString for the two tag patterns: the tag occurs in the line
MatchString(re, line) == \E k \in 1..Len(line) : line[k] = re

getRepoName(repoURL) ==
  LET parts == Split(repoURL, "/")
  IN TrimSuffix(parts[Len(parts)], ".git")

RepoURL(name) ==
  <<"https:", "/", "/", "github.com", "/", "openshift", "/", name, ".git">>

(*************************** parseTestResults ******************************)
RECURSIVE parseLinesFlakyFirst(_, _, _)
parseLinesFlakyFirst(lines, failed, flaky) ==
  IF lines = <<>> THEN [failed |-> failed, flaky |-> flaky]
  ELSE LET line == TrimSpace(Head(lines))
       IN IF line = <<>> THEN parseLinesFlakyFirst(Tail(lines), failed, flaky)
          ELSE IF MatchString(flakyRegex, line)
               THEN parseLinesFlakyFirst(Tail(lines), failed, Append(flaky, line))
          ELSE IF MatchString(failLineRegex, line)
               THEN parseLinesFlakyFirst(Tail(lines), Append(failed, line), flaky)
          ELSE parseLinesFlakyFirst(Tail(lines), failed, flaky)

RECURSIVE parseLines(_, _, _)
parseLines(lines, failed, flaky) ==
  IF lines = <<>> THEN [failed |-> failed, flaky |-> flaky]
  ELSE LET line == TrimSpace(Head(lines))
       IN IF line = <<>> THEN parseLines(Tail(lines), failed, flaky)
          ELSE IF MatchString(failLineRegex, line)
               THEN parseLines(Tail(lines), Append(failed, line), flaky)
          ELSE IF MatchString(flakyRegex, line)
               THEN parseLines(Tail(lines), failed, Append(flaky, line))
          ELSE parseLines(Tail(lines), failed, flaky)

parseTestResults(output) == parseLines(Split(output, "NL"), <<>>, <<>>)

(*************************** generateSummary *******************************)
RECURSIVE bullets(_)
bullets(ls) ==
  IF ls = <<>> THEN <<>>
  ELSE <<"SP", "SP", "-", "SP">> \o Head(ls) \o <<"NL">> \o bullets(Tail(ls))

generateSummaryElse(failed, flaky, crit) ==
  IF crit # <<>>
  THEN <<"Critical Error:", "NL", "SP", "SP", "-", "SP">> \o crit \o <<"NL">>
  ELSE IF Len(failed) > 0 THEN <<"Failing Tests:", "NL">> \o bullets(failed)
  ELSE IF Len(flaky) > 0 THEN <<"NL", "Flaky Tests:", "NL">> \o bullets(flaky)
  ELSE <<"No failing or flaky tests detected.">>

generateSummary(failed, flaky, crit) ==
  IF crit # <<>>
  THEN <<"Critical Error:", "NL", "SP", "SP", "-", "SP">> \o crit \o <<"NL">>
  ELSE LET f == IF Len(failed) > 0
                THEN <<"Failing Tests:", "NL">> \o bullets(failed) ELSE <<>>
           k == IF Len(flaky) > 0
                THEN <<"NL", "Flaky Tests:", "NL">> \o bullets(flaky) ELSE <<>>
       IN IF f \o k = <<>> THEN <<"No failing or flaky tests detected.">>
          ELSE f \o k

(*************************** the merge of one attempt **********************)
\* lines 181-186 / 187-192: append every line not yet in the lookup map
mergeLinesAll(acc, seen, lines) ==
  [acc |-> acc \o lines, seen |-> seen \cup {lines[k] : k \in 1..Len(lines)}]

RECURSIVE mergeLines(_, _, _)
mergeLines(acc, seen, lines) ==
  IF lines = <<>> THEN [acc |-> acc, seen |-> seen]
  ELSE IF Head(lines) \in seen THEN mergeLines(acc, seen, Tail(lines))
  ELSE mergeLines(Append(acc, Head(lines)), seen \cup {Head(lines)}, Tail(lines))

\* lines 167-175: the critical message set by one attempt's result
criticalOf(res) ==
  IF res.isErr /\ res.isExit /\ res.code = 2
  THEN <<"[COMPILATION ERROR]", "SP">> \o res.output
  ELSE IF res.isErr /\ res.isExit /\ res.code = 3
  THEN <<"[SETUP ERROR]", "SP">> \o res.output
  ELSE <<>>

\* lines 167, 176-178: the break test, made on the variable criticalError
breaksLoopNever(isErr, crit) == FALSE
breaksLoopOnError(isErr, crit) == isErr
breaksLoop(isErr, crit) == isErr /\ crit # <<>>

(*************************** report entries ********************************)
ReportEntry(repoName, text) == <<"NL">> \o repoName \o <<"NL">> \o text \o <<"NL">>
SkipEntry(repoName) == repoName \o <<"NL">>
NoEntry == [sink |-> "none", text |-> <<>>]

(*************************** runner results ********************************)
Result(out, isErr, isExit, code) ==
  [output |-> out, isErr |-> isErr, isExit |-> isExit, code |-> code]

OutClean == <<"ok", "SP", "T">>
OutSpec == <<"[FAIL]", "SP", "A", "NL", "[FAIL]", "SP", "A", "NL", "[FLAKY]", "SP", "B">>
OutMixed == <<"SP", "[FAIL]", "SP", "A", "SP", "NL", "SP", "NL",
              "[FLAKY]", "SP", "[FAIL]", "SP", "C", "NL", "[FLAKY]", "SP", "D">>
OutBuild == <<"build", "SP", "failed">>

FleetSuite == { Result(OutSpec, TRUE, TRUE, 1) }
RichSuite ==
  { Result(OutClean, FALSE, FALSE, 0),
    Result(OutSpec, TRUE, TRUE, 1),
    Result(OutMixed, TRUE, TRUE, 1),
    Result(OutBuild, TRUE, TRUE, 2),
    Result(OutBuild, TRUE, TRUE, 3),
    Result(<<>>, TRUE, FALSE, 0) }

\* The discovered repositories, sorted as line 69 leaves them.
Catalog == <<"addon-operator", "cloud-ingress-operator",
             "cluster-kube-apiserver-operator", "must-gather-operator",
             "ocm-agent-operator", "route-monitor-operator">>

Units == 1..Len(repositories)
repoName(r) == getRepoName(repositories[r])

NewWriter == [buf |-> <<>>, n |-> 0, file |-> <<>>]

(*************************** initial state *********************************)
InitCommon ==
  /\ mainpc = "dispatch"
  /\ next = 1
  /\ sem = 0
  /\ wg = 0
  /\ upc = [r \in Units |-> "idle"]
  /\ entry = [r \in Units |-> NoEntry]
  /\ wk = [r \in Units |-> 0]
  /\ ctxDone = [r \in Units |-> FALSE]
  /\ gpc = [r \in Units |-> "none"]
  /\ i = [r \in Units |-> 0]
  /\ failedTests = [r \in Units |-> <<>>]
  /\ flakyTests = [r \in Units |-> <<>>]
  /\ criticalError = [r \in Units |-> <<>>]
  /\ uniqueFailures = [r \in Units |-> {}]
  /\ uniqueFlaky = [r \in Units |-> {}]
  /\ writers = [w \in {"report", "skipped"} |-> NewWriter]
  /\ log = [r \in Units |-> <<>>]
  /\ started = [r \in Units |-> 0]
  /\ outcome = [r \in Units |-> "none"]
  /\ steps = [r \in Units |-> <<>>]

\* What the surroundings of one repository can do: the results of git clone,
\* of getTestExecutionDir and of runGinkgoTests, and how the deadline of the
\* context compares with the speed of the test suite:
\*   "zero"  the deadline has elapsed when the context is made,
\*   "late"  the deadline may elapse at any later moment,
\*   "never" the suite is done well within the deadline.
Env(clone, dir, suite, deadline) ==
  [clone |-> clone, dir |-> dir, suite |-> suite, deadline |-> deadline]

\* The fleet: one environment per catalog entry.  The first repository has
\* the slow suite (its deadline may elapse at any moment) and may lack a test
\* directory, the second one may fail to clone or lack a test directory, the
\* others take one fixed path.
FleetEnv ==
  <<Env({TRUE}, BOOLEAN, FleetSuite, "late"),
    Env(BOOLEAN, BOOLEAN, FleetSuite, "never"),
    Env({TRUE}, {TRUE}, FleetSuite, "never"),
    Env({FALSE}, {TRUE}, FleetSuite, "never"),
    Env({TRUE}, {FALSE}, FleetSuite, "never"),
    Env({FALSE}, {TRUE}, FleetSuite, "never")>>

\* A second discovery result, which holds the excluded repository.
PolicyCatalog == <<"cluster-kube-apiserver-operator", "must-gather-operator",
                   "ocm-agent-operator", "route-monitor-operator">>

PolicyEnv ==
  <<Env({TRUE}, {TRUE}, FleetSuite, "never"),
    Env({FALSE}, {TRUE}, FleetSuite, "never"),
    Env({TRUE}, {FALSE}, FleetSuite, "never"),
    Env({FALSE}, {TRUE}, FleetSuite, "never")>>

\* lines 33, 45-69, 89: the discovered repositories and the limit flag
FleetRun(limits) ==
  /\ repositories = [k \in 1..NumRepos |-> RepoURL(Catalog[k])]
  /\ limit \in limits
  /\ env = [k \in 1..NumRepos |-> FleetEnv[k]]

PolicyRun(limits) ==
  /\ repositories = [k \in 1..NumRepos |-> RepoURL(PolicyCatalog[k])]
  /\ limit \in limits
  /\ env = [k \in 1..NumRepos |-> PolicyEnv[k]]

SingleRun ==
  /\ \E name \in {Catalog[1], skipRepoName} : repositories = <<RepoURL(name)>>
  /\ limit = 1
  /\ \E d \in {"zero", "late"} : env = <<Env(BOOLEAN, BOOLEAN, RichSuite, d)>>

Init ==
  /\ FleetRun(1..MaxLimit) \/ PolicyRun(1..MaxLimit) \/ SingleRun
  /\ InitCommon

\* The runs in which every unit has to wait for the single slot of the
\* fleet, next to the policy fleet under every limit.
LiveInit ==
  /\ FleetRun({1}) \/ PolicyRun(1..MaxLimit) \/ SingleRun
  /\ InitCommon

(*************************** main: the dispatcher **************************)
\* line 94: the send on sem blocks while the channel holds limit tokens
semNeverBlocks == TRUE
semHasRoom == sem < limit

\* line 103: wg.Wait returns when the counter is zero
waitReturnsAtOnce == TRUE
waitReturnsAfterLoops == wg = 0 /\ \A r \in Units : gpc[r] \in {"none", "exit"}
waitReturns == wg = 0

Alive == mainpc # "done"

\* lines 92-101: one iteration of the dispatch loop
Dispatch ==
  /\ mainpc = "dispatch"
  /\ next <= Len(repositories)
  /\ semHasRoom
  /\ sem' = sem + 1
  /\ wg' = wg + 1
  /\ upc' = [upc EXCEPT ![next] = "start"]
  /\ next' = next + 1
  /\ UNCHANGED <<repositories, limit, env, mainpc, entry, wk, ctxDone,
                 gpc, i, failedTests, flakyTests, criticalError,
                 uniqueFailures, uniqueFlaky, writers,
                 log, started, outcome, steps>>

\* lines 92, 103: the loop is over and main waits for the units
Wait ==
  /\ mainpc = "dispatch"
  /\ next > Len(repositories)
  /\ waitReturns
  /\ mainpc' = "flushReport"
  /\ UNCHANGED <<repositories, limit, env, next, sem, wg,
                 upc, entry, wk, ctxDone,
                 gpc, i, failedTests, flakyTests, criticalError,
                 uniqueFailures, uniqueFlaky, writers,
                 log, started, outcome, steps>>

\* bufio.Writer.Flush as one step: hand buf[0:n] to the file, then n = 0
Flushed(w) == [w EXCEPT !.file = w.file \o SubSeq(w.buf, 1, w.n), !.n = 0]

\* lines 104-105: the final flushes of main, then main returns
FinalFlush ==
  /\ \/ /\ mainpc = "flushReport"
        /\ writers' = [writers EXCEPT !["report"] = Flushed(writers["report"])]
        /\ mainpc' = "flushSkipped"
     \/ /\ mainpc = "flushSkipped"
        /\ writers' = [writers EXCEPT !["skipped"] = Flushed(writers["skipped"])]
        /\ mainpc' = "done"
  /\ UNCHANGED <<repositories, limit, env, next, sem, wg,
                 upc, entry, wk, ctxDone,
                 gpc, i, failedTests, flakyTests, criticalError,
                 uniqueFailures, uniqueFlaky,
                 log, started, outcome, steps>>

(*************************** processRepo: one unit *************************)
unitLocal == <<repositories, limit, env, mainpc, next, sem, wg>>
loopVars == <<gpc, i, failedTests, flakyTests, criticalError,
              uniqueFailures, uniqueFlaky, log, started>>

\* lines 127-135: the policy check
Begin(r) ==
  /\ Alive
  /\ upc[r] = "start"
  /\ IF repoName(r) = <<skipRepoName>>
     THEN /\ entry' = [entry EXCEPT ![r] =
                 [sink |-> "report",
                  text |-> ReportEntry(repoName(r), <<"Repository skipped by policy.">>)]]
          /\ steps' = [steps EXCEPT ![r] = Append(steps[r], "policy")]
          /\ upc' = [upc EXCEPT ![r] = "write"]
     ELSE /\ upc' = [upc EXCEPT ![r] = "clone"]
          /\ UNCHANGED <<entry, steps>>
  /\ UNCHANGED <<unitLocal, loopVars, wk, ctxDone, writers, outcome>>

\* lines 139-144: where the unit goes when git clone has returned
cloneNextFallThrough(ok) == "resolve"
cloneNext(ok) == IF ok THEN "resolve" ELSE "write"

\* lines 137-144: git clone returns
Clone(r) ==
  /\ Alive
  /\ upc[r] = "clone"
  /\ \E ok \in env[r].clone :
       /\ upc' = [upc EXCEPT ![r] = cloneNext(ok)]
       /\ IF ok
          THEN /\ steps' = [steps EXCEPT ![r] = Append(steps[r], "clone:ok")]
               /\ UNCHANGED entry
          ELSE /\ steps' = [steps EXCEPT ![r] = Append(steps[r], "clone:failed")]
               /\ entry' = [entry EXCEPT ![r] =
                     [sink |-> "report",
                      text |-> ReportEntry(repoName(r), <<"Repository Not Found.">>)]]
  /\ UNCHANGED <<unitLocal, loopVars, wk, ctxDone, writers, outcome>>

\* lines 145-151: getTestExecutionDir returns
Resolve(r) ==
  /\ Alive
  /\ upc[r] = "resolve"
  /\ \E found \in env[r].dir :
       IF found
       THEN /\ upc' = [upc EXCEPT ![r] = "aggregate"]
            /\ steps' = [steps EXCEPT ![r] = Append(steps[r], "resolve:ok")]
            /\ UNCHANGED entry
       ELSE /\ entry' = [entry EXCEPT ![r] =
                   [sink |-> "skipped", text |-> SkipEntry(repoName(r))]]
            /\ steps' = [steps EXCEPT ![r] = Append(steps[r], "resolve:absent")]
            /\ upc' = [upc EXCEPT ![r] = "write"]
  /\ UNCHANGED <<unitLocal, loopVars, wk, ctxDone, writers, outcome>>

\* lines 153-161: the context, the done channel, the accumulators, and the
\* go statement that starts the attempt loop
Aggregate(r) ==
  /\ Alive
  /\ upc[r] = "aggregate"
  /\ upc' = [upc EXCEPT ![r] = "select"]
  /\ gpc' = [gpc EXCEPT ![r] = "loop"]
  /\ ctxDone' = [ctxDone EXCEPT ![r] = (env[r].deadline = "zero")]
  /\ steps' = [steps EXCEPT ![r] = Append(steps[r], "aggregate")]
  /\ UNCHANGED <<unitLocal, entry, wk, i, failedTests, flakyTests,
                 criticalError, uniqueFailures, uniqueFlaky, writers,
                 log, started, outcome>>

\* line 153: the timer of context.WithTimeout fires.  Time is abstract: the
\* deadline may elapse at any moment after the context has been made.
DeadlineFires(r) ==
  /\ Alive
  /\ upc[r] = "select"
  /\ env[r].deadline = "late"
  /\ ~ctxDone[r]
  /\ ctxDone' = [ctxDone EXCEPT ![r] = TRUE]
  /\ UNCHANGED <<unitLocal, loopVars, upc, entry, wk, writers, outcome, steps>>

\* lines 199-200: the text written by the ctx.Done case
timeoutTextWithSummary(failed, flaky, crit) ==
  <<TimeoutNote, "NL">> \o generateSummary(failed, flaky, crit)
timeoutText(failed, flaky, crit) == <<TimeoutNote>>

\* lines 197, 202: the done case belongs to the select statement, which the
\* unit executes once
atSelectOrLater(r) == upc[r] \in {"select", "finished"}
atSelect(r) == upc[r] = "select"

\* line 194: the attempt loop is at its send on done, after its last write
loopSignalsEarly(r) == gpc[r] \in {"loop", "send"}
loopSignals(r) == gpc[r] = "send"

\* lines 197-201: select takes the ctx.Done case
SelectTimeout(r) ==
  /\ Alive
  /\ upc[r] = "select"
  /\ ctxDone[r]
  /\ entry' = [entry EXCEPT ![r] =
        [sink |-> "report", text |-> ReportEntry(repoName(r),
                    timeoutText(failedTests[r], flakyTests[r], criticalError[r]))]]
  /\ outcome' = [outcome EXCEPT ![r] = "timeout"]
  /\ upc' = [upc EXCEPT ![r] = "write"]
  /\ UNCHANGED <<unitLocal, loopVars, wk, ctxDone, writers, steps>>

\* lines 194, 202-205: select takes the done case; done is unbuffered, so the
\* receive and the loop's send happen together
SelectDone(r) ==
  /\ Alive
  /\ atSelect(r)
  /\ loopSignals(r)
  /\ gpc' = [gpc EXCEPT ![r] = "exit"]
  /\ entry' = [entry EXCEPT ![r] =
        [sink |-> "report",
         text |-> ReportEntry(repoName(r),
                    generateSummary(failedTests[r], flakyTests[r], criticalError[r]))]]
  /\ outcome' = [outcome EXCEPT ![r] =
        IF criticalError[r] # <<>> THEN "critical" ELSE "completed"]
  /\ upc' = [upc EXCEPT ![r] = "write"]
  /\ UNCHANGED <<unitLocal, i, failedTests, flakyTests, criticalError,
                 uniqueFailures, uniqueFlaky, log, started,
                 wk, ctxDone, writers, steps>>

(*************************** the shared bufio.Writers **********************)
\* No lock guards the writers, so the memory accesses of WriteString and
\* Flush made by different units interleave: each call is two steps.

\* WriteString, first half: read b.n
WriteStringRead(r) ==
  /\ Alive
  /\ upc[r] = "write"
  /\ wk' = [wk EXCEPT ![r] = writers[entry[r].sink].n]
  /\ steps' = [steps EXCEPT ![r] = Append(steps[r], "record")]
  /\ upc' = [upc EXCEPT ![r] = "copy"]
  /\ UNCHANGED <<unitLocal, loopVars, entry, ctxDone, writers, outcome>>

\* WriteString, second half: copy(b.buf[b.n:], s); b.n += len
WriteStringCopy(r) ==
  /\ Alive
  /\ upc[r] = "copy"
  /\ LET w == writers[entry[r].sink]
         k == wk[r]
         nb == [j \in 1..(IF Len(w.buf) > k THEN Len(w.buf) ELSE k + 1) |->
                  IF j = k + 1 THEN entry[r].text ELSE w.buf[j]]
     IN writers' = [writers EXCEPT ![entry[r].sink] =
                      [w EXCEPT !.buf = nb, !.n = k + 1]]
  /\ wk' = [wk EXCEPT ![r] = 0]
  /\ upc' = [upc EXCEPT ![r] = "flush"]
  /\ UNCHANGED <<unitLocal, loopVars, entry, ctxDone, outcome, steps>>

\* Flush, first half: nothing to do when b.n = 0, else b.wr.Write(b.buf[0:b.n])
FlushWrite(r) ==
  /\ Alive
  /\ upc[r] = "flush"
  /\ LET w == writers[entry[r].sink]
     IN IF w.n = 0
        THEN /\ upc' = [upc EXCEPT ![r] = "return"]
             /\ UNCHANGED writers
        ELSE /\ writers' = [writers EXCEPT ![entry[r].sink] =
                    [w EXCEPT !.file = w.file \o SubSeq(w.buf, 1, w.n)]]
             /\ upc' = [upc EXCEPT ![r] = "reset"]
  /\ UNCHANGED <<unitLocal, loopVars, entry, wk, ctxDone, outcome, steps>>

\* Flush, second half: b.n = 0
FlushReset(r) ==
  /\ Alive
  /\ upc[r] = "reset"
  /\ writers' = [writers EXCEPT ![entry[r].sink].n = 0]
  /\ upc' = [upc EXCEPT ![r] = "return"]
  /\ UNCHANGED <<unitLocal, loopVars, entry, wk, ctxDone, outcome, steps>>

\* line 98: the receive from sem is deferred, so it runs on every return
semAfterReturnLeaky(s, oc) == IF oc = "timeout" THEN s ELSE s - 1
semAfterReturn(s, oc) == s - 1

\* line 98: the deferred receive from sem
ReleaseSlot(r) ==
  /\ Alive
  /\ upc[r] = "return"
  /\ sem' = semAfterReturn(sem, outcome[r])
  /\ upc' = [upc EXCEPT ![r] = "wgdone"]
  /\ UNCHANGED <<repositories, limit, env, mainpc, next, wg, loopVars,
                 entry, wk, ctxDone, writers, outcome, steps>>

\* line 97: the deferred wg.Done
WgDone(r) ==
  /\ Alive
  /\ upc[r] = "wgdone"
  /\ wg' = wg - 1
  /\ upc' = [upc EXCEPT ![r] = "finished"]
  /\ UNCHANGED <<repositories, limit, env, mainpc, next, sem, loopVars,
                 entry, wk, ctxDone, writers, outcome, steps>>

(*************************** the attempt loop ******************************)
\* lines 164-166: the loop test, then runGinkgoTests is called
StartAttempt(r) ==
  /\ Alive
  /\ gpc[r] = "loop"
  /\ i[r] < attempts
  /\ gpc' = [gpc EXCEPT ![r] = "running"]
  /\ started' = [started EXCEPT ![r] = started[r] + 1]
  /\ UNCHANGED <<unitLocal, upc, entry, wk, ctxDone, i, failedTests,
                 flakyTests, criticalError, uniqueFailures, uniqueFlaky,
                 writers, log, outcome, steps>>

\* lines 166-193: runGinkgoTests returns; critical check, parse and merge
AttemptReturn(r) ==
  /\ Alive
  /\ gpc[r] = "running"
  /\ \E res \in env[r].suite :
       LET crit == IF res.isErr /\ criticalOf(res) # <<>>
                   THEN criticalOf(res) ELSE criticalError[r]
           parsed == parseTestResults(res.output)
           mf == mergeLines(failedTests[r], uniqueFailures[r], parsed.failed)
           mk == mergeLines(flakyTests[r], uniqueFlaky[r], parsed.flaky)
       IN /\ log' = [log EXCEPT ![r] = Append(log[r], res)]
          /\ criticalError' = [criticalError EXCEPT ![r] = crit]
          /\ IF breaksLoop(res.isErr, crit)
             THEN /\ gpc' = [gpc EXCEPT ![r] = "send"]
                  /\ UNCHANGED <<i, failedTests, flakyTests,
                                 uniqueFailures, uniqueFlaky>>
             ELSE /\ failedTests' = [failedTests EXCEPT ![r] = mf.acc]
                  /\ uniqueFailures' = [uniqueFailures EXCEPT ![r] = mf.seen]
                  /\ flakyTests' = [flakyTests EXCEPT ![r] = mk.acc]
                  /\ uniqueFlaky' = [uniqueFlaky EXCEPT ![r] = mk.seen]
                  /\ i' = [i EXCEPT ![r] = i[r] + 1]
                  /\ gpc' = [gpc EXCEPT ![r] =
                        IF i[r] + 1 < attempts THEN "loop" ELSE "send"]
  /\ UNCHANGED <<unitLocal, upc, entry, wk, ctxDone, writers, started,
                 outcome, steps>>

Next ==
  \/ Dispatch
  \/ Wait
  \/ FinalFlush
  \/ \E r \in Units : Begin(r)
  \/ \E r \in Units : Clone(r)
  \/ \E r \in Units : Resolve(r)
  \/ \E r \in Units : Aggregate(r)
  \/ \E r \in Units : DeadlineFires(r)
  \/ \E r \in Units : SelectTimeout(r)
  \/ \E r \in Units : SelectDone(r)
  \/ \E r \in Units : WriteStringRead(r)
  \/ \E r \in Units : WriteStringCopy(r)
  \/ \E r \in Units : FlushWrite(r)
  \/ \E r \in Units : FlushReset(r)
  \/ \E r \in Units : ReleaseSlot(r)
  \/ \E r \in Units : WgDone(r)
  \/ \E r \in Units : StartAttempt(r)
  \/ \E r \in Units : AttemptReturn(r)

Spec == Init /\ [][Next]_vars

(*************************** properties ************************************)
\* a unit that has entered processRepo and has not yet given its slot back
Running(r) ==
  upc[r] \in {"start", "clone", "resolve", "aggregate", "select",
              "write", "copy", "flush", "reset", "return"}

\* C1: the number of repository units that have started and not yet
\* finished never exceeds the concurrency limit; a further unit starts only
\* after a slot has been freed.
C1_BoundedUnits ==
  /\ Cardinality({r \in Units : Running(r)}) <= limit
  /\ Cardinality({r \in Units : Running(r)}) = sem

\* the gate is full while a further repository waits to be dispatched
C1_Witness ==
  /\ Cardinality({r \in Units : Running(r)}) = limit
  /\ mainpc = "dispatch"
  /\ next <= Len(repositories)
  /\ next > 1

\* a unit that is between the start of its WriteString and the end of its Flush
InAppend(r) == upc[r] \in {"copy", "flush", "reset"}

\* C2: appends to a sink are mutually exclusive: no two units are inside
\* the write-then-flush of an entry on the same writer at once.
C2_SerializedAppends ==
  \A r1 \in Units : \A r2 \in Units :
    (r1 # r2 /\ InAppend(r1) /\ InAppend(r2)) => entry[r1].sink # entry[r2].sink

IsRecordOf(t, r) ==
  \/ t = SkipEntry(repoName(r))
  \/ /\ Len(t) >= 3
     /\ SubSeq(t, 1, 3) = <<"NL">> \o repoName(r) \o <<"NL">>

RecordsIn(file, r) == Cardinality({k \in 1..Len(file) : IsRecordOf(file[k], r)})

\* C3: when the run is complete every dispatched repository has exactly one
\* record across the main report and the skip list taken together.
C3_ExactlyOneRecord ==
  mainpc = "done" =>
    \A r \in Units :
      RecordsIn(writers["report"].file, r) + RecordsIn(writers["skipped"].file, r) = 1

NoDup(s) == \A a \in 1..Len(s) : \A b \in 1..Len(s) : s[a] = s[b] => a = b

\* the first occurrences of the elements of s, in order
RECURSIVE FirstOccurrences(_)
FirstOccurrences(s) ==
  IF s = <<>> THEN <<>>
  ELSE LET d == FirstOccurrences(Front(s))
       IN IF \E k \in 1..Len(d) : d[k] = Last(s) THEN d ELSE Append(d, Last(s))

IsCritical(res) == res.isErr /\ res.isExit /\ res.code \in {2, 3}

\* what the classifier returns for each output a suite can print
ClassifierTable ==
  [o \in {res.output : res \in FleetSuite \cup RichSuite} |-> parseTestResults(o)]

\* every line the classifier found in the attempts that were merged, in order
RECURSIVE Classified(_, _)
Classified(results, kind) ==
  IF results = <<>> THEN <<>>
  ELSE LET rest == Classified(Front(results), kind)
           res == Last(results)
       IN IF IsCritical(res) THEN rest
          ELSE rest \o ClassifierTable[res.output][kind]

\* C4: the accumulated failing and flaky sequences of a repository hold no
\* duplicate, and each identifier sits at the position of its first
\* occurrence over the attempts merged so far.
C4_IdempotentMerge ==
  \A r \in Units :
    /\ NoDup(failedTests[r])
    /\ NoDup(flakyTests[r])
    /\ failedTests[r] = FirstOccurrences(Classified(log[r], "failed"))
    /\ flakyTests[r] = FirstOccurrences(Classified(log[r], "flaky"))

\* attempts repeated lines already seen, and the repeats were dropped
C4_Witness ==
  \E r \in Units :
    /\ Len(log[r]) = attempts
    /\ failedTests[r] # <<>>
    /\ flakyTests[r] # <<>>
    /\ Len(failedTests[r]) < Len(Classified(log[r], "failed"))
    /\ Len(flakyTests[r]) < Len(Classified(log[r], "flaky"))

\* C5: an attempt that returns exit status 2 or 3 is the last attempt of its
\* repository: no later attempt is started, the critical message is that
\* attempt's output tagged compilation (2) or setup (3), and the outcome is
\* never Completed.
C5_CriticalShortCircuit ==
  \A r \in Units : \A k \in 1..Len(log[r]) :
    IsCritical(log[r][k]) =>
      /\ k = Len(log[r])
      /\ started[r] = k
      /\ gpc[r] \in {"send", "exit"}
      /\ criticalError[r] =
           (IF log[r][k].code = 2 THEN <<"[COMPILATION ERROR]", "SP">>
                                  ELSE <<"[SETUP ERROR]", "SP">>) \o log[r][k].output
      /\ outcome[r] # "completed"

\* exit status 2 on the first attempt ended in the Critical outcome
C5_Witness ==
  \E r \in Units :
    /\ Len(log[r]) = 1
    /\ log[r][1].code = 2
    /\ started[r] = 1
    /\ outcome[r] = "critical"

Contains(text, line) ==
  \E j \in 1..(Len(text) - Len(line) + 1) : SubSeq(text, j, j + Len(line) - 1) = line

C7_NoAttemptAfterTimeout ==
  [][\A r \in Units : outcome[r] = "timeout" => started'[r] = started[r]]_vars

\* C8: a deadline that has already elapsed when aggregation begins, before the
\* attempt loop has started, never ends in a Completed outcome, however fast
\* the attempt loop is and however the select is resolved.
C8_ZeroDeadlineTimesOut ==
  \A r \in Units : env[r].deadline = "zero" => outcome[r] # "completed"

\* C9: the number of test-runner executions in flight never exceeds the limit.
C9_BoundedExecutions ==
  Cardinality({r \in Units : gpc[r] = "running"}) <= limit

\* C10: main passes wg.Wait, and so performs the final flushes, only when
\* every unit has finished and has handed its record to a writer.
C10_FlushAfterAllUnits ==
  mainpc \in {"flushReport", "flushSkipped", "done"} =>
    \A r \in Units : upc[r] = "finished" /\ entry[r] # NoEntry

\* the run of a fleet is complete
C10_Witness ==
  /\ mainpc = "done"
  /\ Len(repositories) >= 2
  /\ \A r \in Units : upc[r] = "finished"

InSteps(r, x) == \E k \in 1..Len(steps[r]) : steps[r][k] = x

\* C11: a repository whose test directory cannot be resolved runs no attempt,
\* gets nothing in the main report, and is in the skip list exactly once.
C11_NoDirOnlySkipped ==
  \A r \in Units :
    InSteps(r, "resolve:absent") =>
      /\ started[r] = 0
      /\ gpc[r] = "none"
      /\ outcome[r] = "none"
      /\ RecordsIn(writers["report"].file, r) = 0
      /\ mainpc = "done" => RecordsIn(writers["skipped"].file, r) = 1

\* C12: Completed is reached only after exactly three attempts have run to
\* the end, none with exit status 2 or 3; an attempt with any other result
\* does not stop the loop, and its classified lines are merged (stated for
\* the attempt that returned last; every attempt is the last one once).
C12_CompletedAfterAllAttempts ==
  \A r \in Units :
    /\ outcome[r] = "completed" =>
         /\ Len(log[r]) = attempts
         /\ started[r] = attempts
         /\ \A k \in 1..attempts : ~IsCritical(log[r][k])
    /\ (Len(log[r]) < attempts /\ \A k \in 1..Len(log[r]) : ~IsCritical(log[r][k])) =>
         gpc[r] \in {"none", "loop", "running"}
    /\ (log[r] # <<>> /\ ~IsCritical(Last(log[r]))) =>
         LET p == ClassifierTable[Last(log[r]).output]
         IN /\ \A a \in 1..Len(p.failed) :
                 \E b \in 1..Len(failedTests[r]) : failedTests[r][b] = p.failed[a]
            /\ \A a \in 1..Len(p.flaky) :
                 \E b \in 1..Len(flakyTests[r]) : flakyTests[r][b] = p.flaky[a]

\* Completed after a clean pass, an ordinary failure and a failed launch
C12_Witness ==
  \E r \in Units :
    /\ outcome[r] = "completed"
    /\ \E k \in 1..Len(log[r]) : ~log[r][k].isErr
    /\ \E k \in 1..Len(log[r]) : log[r][k].isErr /\ log[r][k].isExit /\ log[r][k].code = 1
    /\ \E k \in 1..Len(log[r]) : log[r][k].isErr /\ ~log[r][k].isExit

\* C13: the slot of a unit is given back on every termination path: the
\* permits in use are exactly those of the units that have not yet returned,
\* and none is in use once all units have finished.
C13_SlotReleasedOnEveryPath ==
  /\ sem = Cardinality({r \in Units : upc[r] \notin {"idle", "wgdone", "finished"}})
  /\ (\A r \in Units : upc[r] = "finished") => sem = 0

\* all units have finished, one by a timeout and one by a failed clone
C13_Witness ==
  /\ \A r \in Units : upc[r] = "finished"
  /\ \E r \in Units : outcome[r] = "timeout"
  /\ \E r \in Units : InSteps(r, "clone:failed")
  /\ sem = 0

IsPrefix(a, b) == Len(a) <= Len(b) /\ SubSeq(b, 1, Len(a)) = a

UnitPaths ==
  { <<"policy", "record">>,
    <<"clone:failed", "record">>,
    <<"clone:ok", "resolve:absent", "record">>,
    <<"clone:ok", "resolve:ok", "aggregate", "record">> }

\* C14: the steps of a unit are strictly sequential (clone, resolve,
\* aggregate, record); a failed clone ends the unit with a not-found entry for
\* the main report, without resolving, without an attempt and without a
\* skip-list entry, and every unit has reached its record when the run ends.
C14_SequentialSteps ==
  \A r \in Units :
    /\ \E p \in UnitPaths : IsPrefix(steps[r], p)
    /\ started[r] > 0 => InSteps(r, "aggregate")
    /\ InSteps(r, "clone:failed") =>
         /\ entry[r] = [sink |-> "report",
                        text |-> <<"NL">> \o repoName(r) \o
                                 <<"NL", "Repository Not Found.", "NL">>]
         /\ started[r] = 0
         /\ gpc[r] = "none"
         /\ outcome[r] = "none"
    /\ mainpc = "done" => steps[r] # <<>> /\ Last(steps[r]) = "record"

\* the run is over, one clone failed and another unit aggregated and recorded
C14_Witness ==
  /\ mainpc = "done"
  /\ \E r \in Units : InSteps(r, "clone:failed")
  /\ \E r \in Units : InSteps(r, "aggregate") /\ outcome[r] # "none"

\* C15: the excluded repository is never cloned, resolved or run, and it has
\* exactly one policy-skip entry in the main report and none in the skip list.
C15_PolicySkip ==
  \A r \in Units :
    repoName(r) = <<skipRepoName>> =>
      /\ IsPrefix(steps[r], <<"policy", "record">>)
      /\ started[r] = 0
      /\ gpc[r] = "none"
      /\ mainpc = "done" =>
           /\ RecordsIn(writers["report"].file, r) = 1
           /\ RecordsIn(writers["skipped"].file, r) = 0

Trimmed(line) == line # <<>> /\ Head(line) # "SP" /\ Last(line) # "SP"

\* C16: the classifier puts a line into at most one of the two sequences:
\* blank lines into neither, a line with both tags into failing only; this
\* holds of the accumulated sequences and of the output classified last.
C16_ExclusiveClassification ==
  \A r \in Units :
    /\ \A a \in 1..Len(failedTests[r]) :
         /\ Trimmed(failedTests[r][a])
         /\ \E j \in 1..Len(failedTests[r][a]) : failedTests[r][a][j] = "[FAIL]"
         /\ \A b \in 1..Len(flakyTests[r]) : failedTests[r][a] # flakyTests[r][b]
    /\ \A b \in 1..Len(flakyTests[r]) :
         /\ Trimmed(flakyTests[r][b])
         /\ \E j \in 1..Len(flakyTests[r][b]) : flakyTests[r][b][j] = "[FLAKY]"
         /\ \A j \in 1..Len(flakyTests[r][b]) : flakyTests[r][b][j] # "[FAIL]"
    /\ log[r] # <<>> =>
         LET p == ClassifierTable[Last(log[r]).output]
         IN \A a \in 1..Len(p.failed) : \A b \in 1..Len(p.flaky) :
              p.failed[a] # p.flaky[b]

\* an output with a blank line and a line with both tags has been merged
C16_Witness ==
  \E r \in Units :
    /\ \E k \in 1..Len(log[r]) : log[r][k].output = OutMixed /\ ~IsCritical(log[r][k])
    /\ \E a \in 1..Len(failedTests[r]) :
         \E j \in 1..Len(failedTests[r][a]) : failedTests[r][a][j] = "[FLAKY]"
    /\ flakyTests[r] # <<>>

HasToken(t, tok) == \E j \in 1..Len(t) : t[j] = tok
PositionOf(t, tok) == CHOOSE j \in 1..Len(t) : t[j] = tok
Bullet(line) == <<"SP", "SP", "-", "SP">> \o line \o <<"NL">>

\* the parts of C17 that do not depend on how the two blocks combine
SummaryCommon(r) ==
  LET t == entry[r].text
  IN /\ criticalError[r] # <<>> =>
          t = <<"NL">> \o repoName(r) \o
              <<"NL", "Critical Error:", "NL", "SP", "SP", "-", "SP">> \o
              criticalError[r] \o <<"NL", "NL">>
     /\ criticalError[r] = <<>> =>
          /\ ~HasToken(t, "Critical Error:")
          /\ HasToken(t, "Failing Tests:") <=> failedTests[r] # <<>>
          /\ \A a \in 1..Len(failedTests[r]) : Contains(t, Bullet(failedTests[r][a]))
     /\ HasToken(t, "No failing or flaky tests detected.") <=>
          (criticalError[r] = <<>> /\ failedTests[r] = <<>> /\ flakyTests[r] = <<>>)

\* C17 as stated, of the summary that is handed to the writer: critical
\* block alone, else the failing block, else the flaky block, else the
\* no-failing-or-flaky line.
C17_FailingElseFlaky ==
  \A r \in Units :
    (outcome[r] \in {"completed", "critical"} /\ upc[r] = "write") =>
      /\ SummaryCommon(r)
      /\ criticalError[r] = <<>> =>
           (HasToken(entry[r].text, "Flaky Tests:") <=>
              (failedTests[r] = <<>> /\ flakyTests[r] # <<>>))

\* C17 amended, of the summary that is handed to the writer: critical
\* block alone; otherwise the failing block when there are failing
\* identifiers, followed by the flaky block when there are flaky
\* identifiers (both when both sets are non-empty); the no-failing-or-flaky
\* line exactly when there is no critical message and both sets are empty.
C17_SummaryBlocks ==
  \A r \in Units :
    (outcome[r] \in {"completed", "critical"} /\ upc[r] = "write") =>
      /\ SummaryCommon(r)
      /\ criticalError[r] = <<>> =>
           /\ HasToken(entry[r].text, "Flaky Tests:") <=> flakyTests[r] # <<>>
           /\ \A b \in 1..Len(flakyTests[r]) :
                Contains(entry[r].text, Bullet(flakyTests[r][b]))
           /\ (failedTests[r] # <<>> /\ flakyTests[r] # <<>>) =>
                PositionOf(entry[r].text, "Failing Tests:") <
                  PositionOf(entry[r].text, "Flaky Tests:")

\* a Completed summary that holds both blocks
C17_Witness ==
  \E r \in Units :
    /\ outcome[r] = "completed"
    /\ upc[r] = "write"
    /\ failedTests[r] # <<>>
    /\ flakyTests[r] # <<>>
    /\ HasToken(entry[r].text, "Failing Tests:")
    /\ HasToken(entry[r].text, "Flaky Tests:")

(*************************** fair scheduling *******************************)
\* The Go scheduler runs a runnable goroutine and every call of a
\* collaborator returns: while some step of the program is possible, a step is
\* taken.  Nothing is assumed about which goroutine goes first, nor about the
\* deadline firing.
Fairness == WF_vars(Next)

LiveSpec == LiveInit /\ [][Next]_vars /\ Fairness

\* C18: under fair scheduling the dispatcher reaches run completion, also
\* with an abandoned attempt loop that stays blocked on its completion signal.
C18_RunCompletes == <>(mainpc = "done")

\* the run of two repositories is complete under limit 1 although the
\* abandoned loop of the first is still blocked on done
C18_Witness ==
  /\ mainpc = "done"
  /\ limit = 1
  /\ Len(repositories) >= 2
  /\ \E r \in Units : outcome[r] = "timeout" /\ gpc[r] = "send"
  /\ \A r \in Units : upc[r] = "finished"

\* C19: once the timeout entry of a repository has been made, the outcome
\* and the entry stay as they are, and no step of the abandoned attempt loop
\* changes a writer, a file or the position of a unit.
C19_AbandonedLoopWritesNothing ==
  [][\A r \in Units :
       outcome[r] = "timeout" =>
         /\ outcome'[r] = "timeout"
         /\ entry'[r] = entry[r]
         /\ (gpc'[r] # gpc[r] \/ log'[r] # log[r] \/ started'[r] # started[r]) =>
              (writers' = writers /\ upc' = upc /\ entry' = entry)]_vars

\* the unit has finished with the timeout note while its loop ran to the end
C19_Witness ==
  \E r \in Units :
    /\ outcome[r] = "timeout"
    /\ upc[r] = "finished"
    /\ Len(log[r]) = attempts
    /\ gpc[r] = "send"
    /\ entry[r].text = <<"NL">> \o repoName(r) \o <<"NL", TimeoutNote, "NL">>

\* C20: the unit reads the accumulated lists and the critical message only
\* after the loop's completion signal: a summary exists only when the loop has
\* ended after its last write, and it is the summary of the final values.
C20_ReadAfterCompletion ==
  \A r \in Units :
    /\ outcome[r] \in {"completed", "critical"} =>
         /\ gpc[r] = "exit"
         /\ (i[r] = attempts \/ criticalError[r] # <<>>)
         /\ Len(log[r]) = started[r]
         /\ entry[r].text =
              ReportEntry(repoName(r),
                generateSummary(failedTests[r], flakyTests[r], criticalError[r]))
    /\ gpc[r] \in {"loop", "running", "send"} =>
         (entry[r] = NoEntry \/ outcome[r] = "timeout")

\* a summary of accumulated identifiers has been written
C20_Witness ==
  \E r \in Units :
    /\ outcome[r] = "completed"
    /\ upc[r] = "finished"
    /\ failedTests[r] # <<>>
    /\ gpc[r] = "exit"

====
